---- MODULE Spec2Model ----
(***************************************************************************)
(* Model of conn_str.go (package mssql): the connection-string front end   *)
(* of the driver.  A DSN is tokenized by one of three tokenizers           *)
(* (splitConnectionString, splitConnectionStringURL,                       *)
(* splitConnectionStringOdbc) into a map[string]string, which              *)
(* parseConnectParams resolves into a connectParams value.  toUrl renders  *)
(* a connectParams back into a sqlserver:// URL.                           *)
(*                                                                         *)
(* A Go string is modelled as the sequence of its characters, each a       *)
(* one-character TLA+ string; all texts of the model are ASCII, so a byte  *)
(* index of the source is a position minus one here.                       *)
(***************************************************************************)
EXTENDS Integers, Sequences, FiniteSets, TLC

\* The characters of a string literal, as a sequence.
S(str) == [n \in 1..Len(str) |-> SubSeq(str, n, n)]

LowerLetters == S("abcdefghijklmnopqrstuvwxyz")
UpperLetters == S("ABCDEFGHIJKLMNOPQRSTUVWXYZ")
Digits == S("0123456789")

Range(f) == {f[x] : x \in DOMAIN f}

\* 0 when c does not occur in s, else the first position of c in s.
IndexOf(s, c) ==
  IF \E n \in 1..Len(s) : s[n] = c
  THEN CHOOSE n \in 1..Len(s) : s[n] = c /\ \A m \in 1..(n - 1) : s[m] # c
  ELSE 0

LastIndexOf(s, c) ==
  IF \E n \in 1..Len(s) : s[n] = c
  THEN CHOOSE n \in 1..Len(s) : s[n] = c /\ \A m \in (n + 1)..Len(s) : s[m] # c
  ELSE 0

From(s, n) == SubSeq(s, n, Len(s))
Upto(s, n) == SubSeq(s, 1, n)

HasPrefix(s, pre) == Len(s) >= Len(pre) /\ Upto(s, Len(pre)) = pre

ToLowerChar(c) ==
  LET n == IndexOf(UpperLetters, c) IN IF n = 0 THEN c ELSE LowerLetters[n]

ToUpperChar(c) ==
  LET n == IndexOf(LowerLetters, c) IN IF n = 0 THEN c ELSE UpperLetters[n]

ToLower(s) == [n \in 1..Len(s) |-> ToLowerChar(s[n])]
ToUpper(s) == [n \in 1..Len(s) |-> ToUpperChar(s[n])]

EqualFold(s, t) == ToLower(s) = ToLower(t)

\* unicode.IsSpace on the ASCII characters of the model
IsSpace(c) == c \in {" ", "\t", "\n", "\r"}

RECURSIVE TrimLeftSpace(_)
TrimLeftSpace(s) ==
  IF s # <<>> /\ IsSpace(Head(s)) THEN TrimLeftSpace(Tail(s)) ELSE s

\* strings.TrimRightFunc(s, unicode.IsSpace)
RECURSIVE TrimRightSpace(_)
TrimRightSpace(s) ==
  IF s # <<>> /\ IsSpace(s[Len(s)]) THEN TrimRightSpace(Upto(s, Len(s) - 1)) ELSE s

TrimSpace(s) == TrimLeftSpace(TrimRightSpace(s))

\* strings.Split(s, sep) for a one-character separator
RECURSIVE Split(_, _)
Split(s, sep) ==
  LET n == IndexOf(s, sep) IN
  IF n = 0 THEN <<s>> ELSE <<Upto(s, n - 1)>> \o Split(From(s, n + 1), sep)

\* strings.SplitN(s, sep, 2) for a one-character separator
SplitN2(s, sep) ==
  LET n == IndexOf(s, sep) IN
  IF n = 0 THEN <<s>> ELSE <<Upto(s, n - 1), From(s, n + 1)>>

(***************************************************************************)
(* map[string]string: a function from keys to values.                      *)
(***************************************************************************)
EmptyMap == [k \in {} |-> <<>>]

MapPutFirstWins(m, k, v) ==
  IF k \in DOMAIN m THEN m ELSE [x \in DOMAIN m \cup {k} |-> IF x = k THEN v ELSE m[x]]

\* m[k] = v
MapPut(m, k, v) == [x \in DOMAIN m \cup {k} |-> IF x = k THEN v ELSE m[x]]

Has(m, k) == k \in DOMAIN m

\* m[k] of a map read: the zero value "" for a missing key
Get(m, k) == IF k \in DOMAIN m THEN m[k] ELSE <<>>

(***************************************************************************)
(* splitConnectionString: the semicolon tokenizer.                         *)
(***************************************************************************)
\* name := strings.TrimSpace(strings.ToLower(lst[0]))
SegmentName(part) == TrimSpace(ToLower(SplitN2(part, "=")[1]))

SegmentValueUntrimmed(part) ==
  LET lst == SplitN2(part, "=") IN IF Len(lst) > 1 THEN lst[2] ELSE <<>>

\* value = strings.TrimSpace(lst[1]) when the segment holds an "="
SegmentValue(part) ==
  LET lst == SplitN2(part, "=") IN IF Len(lst) > 1 THEN TrimSpace(lst[2]) ELSE <<>>

\* one iteration of the loop over parts
SemicolonPart(res, part) ==
  IF Len(part) = 0 THEN res
  ELSE IF Len(SegmentName(part)) = 0 THEN res
  ELSE MapPut(res, SegmentName(part), SegmentValue(part))

RECURSIVE SemicolonLoop(_, _)
SemicolonLoop(res, parts) ==
  IF parts = <<>> THEN res
  ELSE SemicolonLoop(SemicolonPart(res, Head(parts)), Tail(parts))

splitConnectionString(dsn) == SemicolonLoop(EmptyMap, Split(dsn, ";"))

(***************************************************************************)
(* splitConnectionStringOdbc: the ODBC tokenizer, one character per step.  *)
(* A scanner value sc holds the locals state, key, value and res, the      *)
(* error returned (NoErr while scanning goes on), and two histories: open, *)
(* the position of the "{" that opened the value being read (-1: none),    *)
(* and writes, the executions of res[key] = value, each with the position  *)
(* being read and the open of its value.                                   *)
(***************************************************************************)
parserStateBeforeKey == "BeforeKey"
parserStateKey == "Key"
parserStateBeginValue == "BeginValue"
parserStateBareValue == "BareValue"
parserStateBracedValue == "BracedValue"
parserStateBracedValueClosingBrace == "BracedValueClosingBrace"
parserStateEndValue == "EndValue"

ParserStates ==
  {parserStateBeforeKey, parserStateKey, parserStateBeginValue, parserStateBareValue,
   parserStateBracedValue, parserStateBracedValueClosingBrace, parserStateEndValue}

NoErr == "nil"

normalizeOdbcKeyNoLower(s) == TrimRightSpace(s)

normalizeOdbcKey(s) == ToLower(TrimRightSpace(s))

OdbcInit ==
  [state |-> parserStateBeforeKey, key |-> <<>>, value |-> <<>>, res |-> EmptyMap,
   err |-> NoErr, open |-> -1, writes |-> <<>>]

\* res[k] = v at position at
OdbcCommit(sc, k, v, at) ==
  [sc EXCEPT !.res = MapPut(sc.res, k, v),
             !.open = -1,
             !.writes = Append(sc.writes, [key |-> k, value |-> v, at |-> at, open |-> sc.open])]

OdbcBeforeKey(sc, c, at) ==
  IF c = "=" THEN [sc EXCEPT !.err = "odbc: unexpected character, expected start of key"]
  ELSE IF ~IsSpace(c) /\ c # ";"
       THEN [sc EXCEPT !.state = parserStateKey, !.key = sc.key \o <<c>>]
       ELSE sc

OdbcKey(sc, c, at) ==
  IF c = "=" THEN [sc EXCEPT !.key = normalizeOdbcKey(sc.key), !.state = parserStateBeginValue]
  ELSE IF c = ";"
       THEN [OdbcCommit(sc, normalizeOdbcKey(sc.key), sc.value, at)
               EXCEPT !.key = <<>>, !.value = <<>>, !.state = parserStateBeforeKey]
       ELSE [sc EXCEPT !.key = sc.key \o <<c>>]

OdbcBeginValue(sc, c, at) ==
  IF c = "{" THEN [sc EXCEPT !.state = parserStateBracedValue, !.open = at]
  ELSE IF c = ";"
       THEN [OdbcCommit(sc, sc.key, sc.value, at)
               EXCEPT !.key = <<>>, !.state = parserStateBeforeKey]
       ELSE IF IsSpace(c) THEN sc
            ELSE [sc EXCEPT !.state = parserStateBareValue, !.value = sc.value \o <<c>>]

OdbcBareValueKeepsValue(sc, c, at) ==
  IF c = ";"
  THEN [OdbcCommit(sc, sc.key, TrimRightSpace(sc.value), at)
          EXCEPT !.key = <<>>, !.state = parserStateBeforeKey]
  ELSE [sc EXCEPT !.value = sc.value \o <<c>>]

OdbcBareValue(sc, c, at) ==
  IF c = ";"
  THEN [OdbcCommit(sc, sc.key, TrimRightSpace(sc.value), at)
          EXCEPT !.key = <<>>, !.value = <<>>, !.state = parserStateBeforeKey]
  ELSE [sc EXCEPT !.value = sc.value \o <<c>>]

OdbcBracedValue(sc, c, at) ==
  IF c = "}" THEN [sc EXCEPT !.state = parserStateBracedValueClosingBrace]
  ELSE [sc EXCEPT !.value = sc.value \o <<c>>]

OdbcBracedValueClosingBraceKeepsBoth(sc, c, at) ==
  IF c = "}"
  THEN [sc EXCEPT !.value = sc.value \o <<c, c>>, !.state = parserStateBracedValue]
  ELSE LET done == [OdbcCommit(sc, sc.key, sc.value, at)
                      EXCEPT !.key = <<>>, !.value = <<>>, !.state = parserStateEndValue]
       IN IF c = ";" THEN [done EXCEPT !.state = parserStateBeforeKey]
          ELSE IF IsSpace(c) THEN done
               ELSE [done EXCEPT !.err = "odbc: unexpected character, expected semi-colon or whitespace"]

OdbcBracedValueClosingBrace(sc, c, at) ==
  IF c = "}"
  THEN [sc EXCEPT !.value = sc.value \o <<c>>, !.state = parserStateBracedValue]
  ELSE LET done == [OdbcCommit(sc, sc.key, sc.value, at)
                      EXCEPT !.key = <<>>, !.value = <<>>, !.state = parserStateEndValue]
       IN IF c = ";" THEN [done EXCEPT !.state = parserStateBeforeKey]
          ELSE IF IsSpace(c) THEN done
               ELSE [done EXCEPT !.err = "odbc: unexpected character, expected semi-colon or whitespace"]

OdbcEndValueLenient(sc, c, at) ==
  IF c = ";" THEN [sc EXCEPT !.state = parserStateBeforeKey] ELSE sc

OdbcEndValue(sc, c, at) ==
  IF c = ";" THEN [sc EXCEPT !.state = parserStateBeforeKey]
  ELSE IF IsSpace(c) THEN sc
       ELSE [sc EXCEPT !.err = "odbc: unexpected character, expected semi-colon or whitespace"]

\* the body of the loop "for i, c := range dsn": the switch on state
OdbcChar(sc, c, at) ==
  CASE sc.state = parserStateBeforeKey -> OdbcBeforeKey(sc, c, at)
    [] sc.state = parserStateKey -> OdbcKey(sc, c, at)
    [] sc.state = parserStateBeginValue -> OdbcBeginValue(sc, c, at)
    [] sc.state = parserStateBareValue -> OdbcBareValue(sc, c, at)
    [] sc.state = parserStateBracedValue -> OdbcBracedValue(sc, c, at)
    [] sc.state = parserStateBracedValueClosingBrace -> OdbcBracedValueClosingBrace(sc, c, at)
    [] sc.state = parserStateEndValue -> OdbcEndValue(sc, c, at)

OdbcEndOfInputLenient(sc, at) ==
  CASE sc.state = parserStateKey -> OdbcCommit(sc, normalizeOdbcKey(sc.key), sc.value, at)
    [] sc.state = parserStateBeginValue -> OdbcCommit(sc, sc.key, sc.value, at)
    [] sc.state = parserStateBareValue -> OdbcCommit(sc, sc.key, TrimRightSpace(sc.value), at)
    [] sc.state = parserStateBracedValue -> OdbcCommit(sc, sc.key, sc.value, at)
    [] sc.state = parserStateBracedValueClosingBrace -> OdbcCommit(sc, sc.key, sc.value, at)
    [] OTHER -> sc

\* the switch on state after the loop
OdbcEndOfInput(sc, at) ==
  CASE sc.state = parserStateKey -> OdbcCommit(sc, normalizeOdbcKey(sc.key), sc.value, at)
    [] sc.state = parserStateBeginValue -> OdbcCommit(sc, sc.key, sc.value, at)
    [] sc.state = parserStateBareValue -> OdbcCommit(sc, sc.key, TrimRightSpace(sc.value), at)
    [] sc.state = parserStateBracedValue -> [sc EXCEPT !.err = "odbc: unexpected end of braced value"]
    [] sc.state = parserStateBracedValueClosingBrace -> OdbcCommit(sc, sc.key, sc.value, at)
    [] OTHER -> sc

(***************************************************************************)
(* Unsigned 64-bit integers (uint64, and the bits of an int64) are four    *)
(* 16-bit limbs, least significant first, so that the arithmetic keeps its *)
(* width; 16-bit quantities (port, packetSize) are plain integers.         *)
(***************************************************************************)
Limb == 65536

U64FromInt(n) == <<n % Limb, (n \div Limb) % Limb, 0, 0>>

U64Zero == U64FromInt(0)

U64Max == <<Limb - 1, Limb - 1, Limb - 1, Limb - 1>>

\* x * m + a in 64 bits, and the carry out of bit 63 (m and a small)
U64MulAdd(x, m, a) ==
  LET t1 == x[1] * m + a
      t2 == x[2] * m + (t1 \div Limb)
      t3 == x[3] * m + (t2 \div Limb)
      t4 == x[4] * m + (t3 \div Limb)
  IN [val |-> <<t1 % Limb, t2 % Limb, t3 % Limb, t4 % Limb>>, carry |-> t4 \div Limb]

\* x div d and x mod d (d small)
U64DivMod(x, d) ==
  LET t4 == x[4]
      t3 == (t4 % d) * Limb + x[3]
      t2 == (t3 % d) * Limb + x[2]
      t1 == (t2 % d) * Limb + x[1]
  IN [quo |-> <<t1 \div d, t2 \div d, t3 \div d, t4 \div d>>, rem |-> t1 % d]

\* whether x needs more than bitSize bits (bitSize a multiple of 16)
U64Exceeds(x, bitSize) == \E n \in 1..4 : n > bitSize \div 16 /\ x[n] # 0

\* the largest value of bitSize bits
U64MaxOf(bitSize) == [n \in 1..4 |-> IF n > bitSize \div 16 THEN 0 ELSE Limb - 1]

\* a value below 2^31 as a plain integer
U64ToInt(x) == x[1] + x[2] * Limb

(***************************************************************************)
(* strconv.ParseUint, strconv.FormatUint and strconv.ParseBool.            *)
(***************************************************************************)
\* the value of a digit character, 99 for a character that is no digit
DigitValue(c) ==
  LET d == IndexOf(Digits, c)
      l == IndexOf(LowerLetters, ToLowerChar(c))
  IN IF d # 0 THEN d - 1 ELSE IF l # 0 THEN l + 9 ELSE 99

\* strconv's underscoreOK: underscores only between digits or after a base prefix
RECURSIVE UnderscoreScan(_, _, _)
UnderscoreScan(s, last, hex) ==
  IF s = <<>> THEN last # "_"
  ELSE LET c == Head(s) IN
       IF IndexOf(Digits, c) # 0 \/ (hex /\ DigitValue(c) \in 10..15)
       THEN UnderscoreScan(Tail(s), "0", hex)
       ELSE IF c = "_"
            THEN last = "0" /\ UnderscoreScan(Tail(s), "_", hex)
            ELSE last # "_" /\ UnderscoreScan(Tail(s), "!", hex)

UnderscoreOK(s0) ==
  LET s == IF s0 # <<>> /\ s0[1] \in {"-", "+"} THEN Tail(s0) ELSE s0
      prefixed == Len(s) >= 2 /\ s[1] = "0" /\ ToLowerChar(s[2]) \in {"b", "o", "x"}
  IN IF prefixed
     THEN UnderscoreScan(From(s, 3), "0", ToLowerChar(s[2]) = "x")
     ELSE UnderscoreScan(s, "^", FALSE)

\* the digit loop of ParseUint: acc is [val, err]
RECURSIVE ParseUintLoop(_, _, _, _, _)
ParseUintLoop(s, base, base0, bitSize, acc) ==
  IF s = <<>> \/ acc.err # NoErr THEN acc
  ELSE LET c == Head(s)
           d == DigitValue(c)
       IN IF c = "_" /\ base0
          THEN ParseUintLoop(Tail(s), base, base0, bitSize, acc)
          ELSE IF d >= base
          THEN [val |-> U64Zero, err |-> "syntax"]
          ELSE LET r == U64MulAdd(acc.val, base, d) IN
               IF r.carry # 0 \/ U64Exceeds(r.val, bitSize)
               THEN [val |-> U64MaxOf(bitSize), err |-> "range"]
               ELSE ParseUintLoop(Tail(s), base, base0, bitSize, [val |-> r.val, err |-> NoErr])

ParseUint(s, base, bitSize) ==
  IF s = <<>> THEN [val |-> U64Zero, err |-> "syntax"]
  ELSE LET base0 == base = 0
           pre == IF ~base0 THEN [base |-> base, rest |-> s]
                  ELSE IF s[1] # "0" THEN [base |-> 10, rest |-> s]
                  ELSE IF Len(s) >= 3 /\ ToLowerChar(s[2]) = "b" THEN [base |-> 2, rest |-> From(s, 3)]
                  ELSE IF Len(s) >= 3 /\ ToLowerChar(s[2]) = "o" THEN [base |-> 8, rest |-> From(s, 3)]
                  ELSE IF Len(s) >= 3 /\ ToLowerChar(s[2]) = "x" THEN [base |-> 16, rest |-> From(s, 3)]
                  ELSE [base |-> 8, rest |-> Tail(s)]
           r == ParseUintLoop(pre.rest, pre.base, base0, bitSize, [val |-> U64Zero, err |-> NoErr])
       IN IF r.err = NoErr /\ base0 /\ IndexOf(s, "_") # 0 /\ ~UnderscoreOK(s)
          THEN [val |-> U64Zero, err |-> "syntax"]
          ELSE r

RECURSIVE FormatDigits(_)
FormatDigits(x) ==
  IF x = U64Zero THEN <<>>
  ELSE LET qr == U64DivMod(x, 10) IN FormatDigits(qr.quo) \o <<Digits[qr.rem + 1]>>

\* strconv.FormatUint(x, 10)
FormatUint(x) == IF x = U64Zero THEN S("0") ELSE FormatDigits(x)

TrueTexts == {S("1"), S("t"), S("T"), S("TRUE"), S("true"), S("True")}
FalseTexts == {S("0"), S("f"), S("F"), S("FALSE"), S("false"), S("False")}

ParseBool(s) ==
  IF s \in TrueTexts THEN [val |-> TRUE, err |-> NoErr]
  ELSE IF s \in FalseTexts THEN [val |-> FALSE, err |-> NoErr]
  ELSE [val |-> FALSE, err |-> "syntax"]

(***************************************************************************)
(* parseConnectParams, after the tokenizer: the resolution of the map      *)
(* params into a connectParams p.  A resolver value st holds p, the error  *)
(* returned (NoErr while resolution goes on) and stats, the number of      *)
(* os.Stat calls made.  env is the environment of the call: files, the     *)
(* paths that exist, and hostname, what os.Hostname returns.               *)
(***************************************************************************)
defaultServerPort == 1433
defaultPacketSize == 4096
PFXKeystoreAuth == S("pfx")
fedAuthLibraryReserved == "fedAuthLibraryReserved"
fReadOnlyIntent == "fReadOnlyIntent"

\* time.Duration(timeout) * time.Second: the product in 64 bits, as int64 bits
Seconds(timeout) ==
  U64MulAdd(U64MulAdd(U64MulAdd(timeout, 1000, 0).val, 1000, 0).val, 1000, 0).val

\* the zero connectParams, with fedAuthLibrary set
ZeroParams ==
  [logFlags |-> U64Zero, port |-> 0, host |-> <<>>, instance |-> <<>>,
   database |-> <<>>, user |-> <<>>, password |-> <<>>,
   dial_timeout |-> U64Zero, conn_timeout |-> U64Zero, keepAlive |-> U64Zero,
   encrypt |-> FALSE, disableEncryption |-> FALSE, trustServerCertificate |-> FALSE,
   certificate |-> <<>>, hostInCertificate |-> <<>>, hostInCertificateProvided |-> FALSE,
   serverSPN |-> <<>>, workstation |-> <<>>, appname |-> <<>>, typeFlags |-> {},
   failOverPartner |-> <<>>, failOverPort |-> 0, packetSize |-> 0,
   fedAuthLibrary |-> fedAuthLibraryReserved, fedAuthADALWorkflow |-> 0,
   columnEncryption |-> FALSE, keyStoreAuthentication |-> <<>>,
   keyStoreLocation |-> <<>>, keyStoreSecret |-> <<>>]

ResolveInit == [p |-> ZeroParams, err |-> NoErr, stats |-> 0]

resolveServerPort(port) == IF port = 0 THEN defaultServerPort ELSE port

generateSpn(host, port) == S("MSSQLSvc/") \o host \o S(":") \o FormatUint(U64FromInt(port))

ResolveLog(params, st) ==
  IF ~Has(params, S("log")) THEN st
  ELSE LET r == ParseUint(params[S("log")], 10, 64) IN
       [st EXCEPT !.p.logFlags = r.val,
                  !.err = IF r.err # NoErr THEN "invalid log parameter" ELSE NoErr]

HostOfExactLocal(server) ==
  LET host == SplitN2(server, "\\")[1] IN
  IF host = S(".") \/ host = S("(local)") \/ host = <<>> THEN S("localhost") ELSE host

\* the host part of the server value, "localhost" for ".", "(local)" and ""
HostOf(server) ==
  LET host == SplitN2(server, "\\")[1] IN
  IF host = S(".") \/ ToUpper(host) = S("(LOCAL)") \/ host = <<>> THEN S("localhost") ELSE host

ResolveServer(params, st) ==
  LET server == Get(params, S("server"))
      parts == SplitN2(server, "\\")
  IN [st EXCEPT !.p.host = HostOf(server),
                !.p.instance = IF Len(parts) > 1 THEN parts[2] ELSE <<>>,
                !.p.database = Get(params, S("database")),
                !.p.user = Get(params, S("user id")),
                !.p.password = Get(params, S("password"))]

ResolvePort(params, st) ==
  IF ~Has(params, S("port")) THEN [st EXCEPT !.p.port = 0]
  ELSE LET r == ParseUint(params[S("port")], 10, 16) IN
       [st EXCEPT !.p.port = U64ToInt(r.val),
                  !.err = IF r.err # NoErr THEN "invalid tcp port" ELSE NoErr]

\* p.packetSize = uint16(psize), then the clamp into 512..32767
ClampPacketSize(psize) ==
  LET size == psize % Limb IN
  IF size < 512 THEN 512 ELSE IF size > 32767 THEN 32767 ELSE size

ResolvePacketSize(params, st) ==
  IF ~Has(params, S("packet size")) THEN [st EXCEPT !.p.packetSize = defaultPacketSize]
  ELSE LET r == ParseUint(params[S("packet size")], 0, 16) IN
       IF r.err # NoErr
       THEN [st EXCEPT !.p.packetSize = defaultPacketSize, !.err = "invalid packet size"]
       ELSE [st EXCEPT !.p.packetSize = ClampPacketSize(U64ToInt(r.val))]

ResolveConnTimeout(params, st) ==
  IF ~Has(params, S("connection timeout")) THEN st
  ELSE LET r == ParseUint(params[S("connection timeout")], 10, 64) IN
       IF r.err # NoErr THEN [st EXCEPT !.err = "invalid connection timeout"]
       ELSE [st EXCEPT !.p.conn_timeout = Seconds(r.val)]

ResolveDialTimeout(params, st) ==
  LET st1 == [st EXCEPT !.p.dial_timeout = Seconds(U64FromInt(15))] IN
  IF ~Has(params, S("dial timeout")) THEN st1
  ELSE LET r == ParseUint(params[S("dial timeout")], 10, 64) IN
       IF r.err # NoErr THEN [st1 EXCEPT !.err = "invalid dial timeout"]
       ELSE [st1 EXCEPT !.p.dial_timeout = Seconds(r.val)]

ResolveKeepAlive(params, st) ==
  LET st1 == [st EXCEPT !.p.keepAlive = Seconds(U64FromInt(30))] IN
  IF ~Has(params, S("keepalive")) THEN st1
  ELSE LET r == ParseUint(params[S("keepalive")], 10, 64) IN
       IF r.err # NoErr THEN [st1 EXCEPT !.err = "invalid keepAlive value"]
       ELSE [st1 EXCEPT !.p.keepAlive = Seconds(r.val)]

ResolveEncrypt(params, st) ==
  IF ~Has(params, S("encrypt")) THEN [st EXCEPT !.p.trustServerCertificate = TRUE]
  ELSE IF EqualFold(params[S("encrypt")], S("DISABLE"))
       THEN [st EXCEPT !.p.disableEncryption = TRUE]
       ELSE LET r == ParseBool(params[S("encrypt")]) IN
            [st EXCEPT !.p.encrypt = r.val,
                       !.err = IF r.err # NoErr THEN "invalid encrypt" ELSE NoErr]

ResolveColumnEncryption(params, st) ==
  IF ~Has(params, S("columnencryption")) THEN [st EXCEPT !.p.columnEncryption = FALSE]
  ELSE IF EqualFold(params[S("columnencryption")], S("true"))
       THEN [st EXCEPT !.p.columnEncryption = TRUE]
       ELSE LET r == ParseBool(params[S("columnencryption")]) IN
            [st EXCEPT !.p.columnEncryption = r.val,
                       !.err = IF r.err # NoErr THEN "invalid columnEncryption" ELSE NoErr]

ResolveKeyStoreAuthentication(params, st) ==
  IF ~Has(params, S("keystoreauthentication")) THEN st
  ELSE IF ToLower(params[S("keystoreauthentication")]) = S("pfx")
       THEN [st EXCEPT !.p.keyStoreAuthentication = PFXKeystoreAuth]
       ELSE [st EXCEPT !.err = "invalid keystotreAuthentication"]

ResolveKeyStoreLocationStatFirst(params, env, st) ==
  IF ~Has(params, S("keystorelocation")) THEN st
  ELSE IF params[S("keystorelocation")] \notin env.files
       THEN [st EXCEPT !.stats = st.stats + 1, !.err = "unable to find keystore"]
       ELSE [st EXCEPT !.stats = st.stats + 1,
                       !.p.keyStoreLocation = params[S("keystorelocation")]]

ResolveKeyStoreLocationNoStat(params, env, st) ==
  IF ~Has(params, S("keystorelocation")) THEN st
  ELSE IF params[S("keystorelocation")] = <<>>
       THEN [st EXCEPT !.err = "invalid keystore location provided"]
       ELSE [st EXCEPT !.p.keyStoreLocation = params[S("keystorelocation")]]

\* os.Stat(ksLocation) succeeds exactly for the paths of env.files
ResolveKeyStoreLocation(params, env, st) ==
  IF ~Has(params, S("keystorelocation")) THEN st
  ELSE LET ksLocation == params[S("keystorelocation")] IN
       IF ksLocation = <<>> THEN [st EXCEPT !.err = "invalid keystore location provided"]
       ELSE IF ksLocation \notin env.files
            THEN [st EXCEPT !.stats = st.stats + 1, !.err = "unable to find keystore"]
            ELSE [st EXCEPT !.stats = st.stats + 1, !.p.keyStoreLocation = ksLocation]

ResolveKeyStoreSecret(params, st) ==
  IF Has(params, S("keystoresecret"))
  THEN [st EXCEPT !.p.keyStoreSecret = params[S("keystoresecret")]]
  ELSE st

ResolveTrustKeepsDefault(params, st) ==
  IF ~Has(params, S("trustservercertificate")) \/ st.p.trustServerCertificate THEN st
  ELSE LET r == ParseBool(params[S("trustservercertificate")]) IN
       [st EXCEPT !.p.trustServerCertificate = r.val,
                  !.err = IF r.err # NoErr THEN "invalid trust server certificate" ELSE NoErr]

ResolveTrust(params, st) ==
  IF ~Has(params, S("trustservercertificate")) THEN st
  ELSE LET r == ParseBool(params[S("trustservercertificate")]) IN
       [st EXCEPT !.p.trustServerCertificate = r.val,
                  !.err = IF r.err # NoErr THEN "invalid trust server certificate" ELSE NoErr]

ResolveCertificateAlwaysHost(params, st) ==
  [st EXCEPT !.p.certificate = Get(params, S("certificate")),
             !.p.hostInCertificate = st.p.host,
             !.p.hostInCertificateProvided = Has(params, S("hostnameincertificate"))]

ResolveCertificate(params, st) ==
  [st EXCEPT !.p.certificate = Get(params, S("certificate")),
             !.p.hostInCertificate =
                IF Has(params, S("hostnameincertificate"))
                THEN params[S("hostnameincertificate")] ELSE st.p.host,
             !.p.hostInCertificateProvided = Has(params, S("hostnameincertificate"))]

ResolveIdentity(params, env, st) ==
  [st EXCEPT !.p.serverSPN =
                IF Has(params, S("serverspn")) THEN params[S("serverspn")]
                ELSE generateSpn(st.p.host, resolveServerPort(st.p.port)),
             !.p.workstation =
                IF Has(params, S("workstation id")) THEN params[S("workstation id")]
                ELSE IF env.hostname.ok THEN env.hostname.name ELSE st.p.workstation,
             !.p.appname =
                IF Has(params, S("app name")) THEN params[S("app name")] ELSE S("go-mssqldb")]

ResolveAppIntentAnyCase(params, st) ==
  IF Has(params, S("applicationintent")) /\ EqualFold(params[S("applicationintent")], S("ReadOnly"))
  THEN IF st.p.database = <<>>
       THEN [st EXCEPT !.err = "database must be specified when ApplicationIntent is ReadOnly"]
       ELSE [st EXCEPT !.p.typeFlags = st.p.typeFlags \cup {fReadOnlyIntent}]
  ELSE st

ResolveAppIntent(params, st) ==
  IF Has(params, S("applicationintent")) /\ params[S("applicationintent")] = S("ReadOnly")
  THEN IF st.p.database = <<>>
       THEN [st EXCEPT !.err = "database must be specified when ApplicationIntent is ReadOnly"]
       ELSE [st EXCEPT !.p.typeFlags = st.p.typeFlags \cup {fReadOnlyIntent}]
  ELSE st

ResolveFailOver(params, st) ==
  LET st1 == IF Has(params, S("failoverpartner"))
             THEN [st EXCEPT !.p.failOverPartner = params[S("failoverpartner")]] ELSE st
  IN IF ~Has(params, S("failoverport")) THEN st1
     ELSE LET r == ParseUint(params[S("failoverport")], 0, 16) IN
          [st1 EXCEPT !.p.failOverPort = U64ToInt(r.val),
                      !.err = IF r.err # NoErr THEN "invalid tcp port" ELSE NoErr]

\* the n-th block of statements of parseConnectParams after the tokenizer
ResolveStep(n, params, env, st) ==
  CASE n = 1 -> ResolveLog(params, st)
    [] n = 2 -> ResolveServer(params, st)
    [] n = 3 -> ResolvePort(params, st)
    [] n = 4 -> ResolvePacketSize(params, st)
    [] n = 5 -> ResolveConnTimeout(params, st)
    [] n = 6 -> ResolveDialTimeout(params, st)
    [] n = 7 -> ResolveKeepAlive(params, st)
    [] n = 8 -> ResolveEncrypt(params, st)
    [] n = 9 -> ResolveColumnEncryption(params, st)
    [] n = 10 -> ResolveKeyStoreAuthentication(params, st)
    [] n = 11 -> ResolveKeyStoreLocation(params, env, st)
    [] n = 12 -> ResolveKeyStoreSecret(params, st)
    [] n = 13 -> ResolveTrust(params, st)
    [] n = 14 -> ResolveCertificate(params, st)
    [] n = 15 -> ResolveIdentity(params, env, st)
    [] n = 16 -> ResolveAppIntent(params, st)
    [] n = 17 -> ResolveFailOver(params, st)

RECURSIVE ResolveFromFailClosed(_, _, _, _)
ResolveFromFailClosed(n, params, env, st) ==
  IF st.err # NoErr THEN [st EXCEPT !.p = ZeroParams]
  ELSE IF n > 17 THEN st
  ELSE ResolveFromFailClosed(n + 1, params, env, ResolveStep(n, params, env, st))

\* the blocks from the n-th on, in order; "return p, err" skips what follows
RECURSIVE ResolveFrom(_, _, _, _)
ResolveFrom(n, params, env, st) ==
  IF n > 17 \/ st.err # NoErr THEN st
  ELSE ResolveFrom(n + 1, params, env, ResolveStep(n, params, env, st))

\* the body of parseConnectParams from the read of params["log"] on
Resolve(params, env) == ResolveFrom(1, params, env, ResolveInit)

(***************************************************************************)
(* net/url and net, as far as conn_str.go uses them: url.Parse, URL.Query, *)
(* net.SplitHostPort, url.Values.Encode and URL.String.  The texts of the  *)
(* model are printable ASCII without "[" and "]" (no IPv6 literals).       *)
(***************************************************************************)
\* the characters with codes 34, 39 and 96, by name
Quote == "<quote>"
Apostrophe == "<apostrophe>"
Backtick == "<backtick>"

\* the printable ASCII characters, from code 32 on
Ascii ==
  S(" !") \o <<Quote>> \o S("#$%&") \o <<Apostrophe>>
    \o S("()*+,-./0123456789:;<=>?@ABCDEFGHIJKLMNOPQRSTUVWXYZ[") \o <<"\\">>
    \o S("]^_") \o <<Backtick>> \o S("abcdefghijklmnopqrstuvwxyz{|}~")

HexDigits == S("0123456789ABCDEF")

\* the byte with code n: one token stands for every byte that is not printable ASCII
CharOf(n) == IF n \in 32..126 THEN Ascii[n - 31] ELSE "<byte>"

CodeOf(c) == IndexOf(Ascii, c) + 31

IsHex(c) == DigitValue(c) < 16

IsAlnum(c) == IndexOf(LowerLetters, c) # 0 \/ IndexOf(UpperLetters, c) # 0 \/ IndexOf(Digits, c) # 0

\* url.shouldEscape(c, mode)
shouldEscape(c, mode) ==
  IF IsAlnum(c) THEN FALSE
  ELSE IF mode = "encodeHost" /\ c \in Range(S("!$&()*+,;=:[]<>")) \cup {Apostrophe, Quote} THEN FALSE
  ELSE IF c \in Range(S("-_.~")) THEN FALSE
  ELSE IF c \in Range(S("$&+,/:;=?@"))
       THEN CASE mode = "encodePath" -> c = "?"
              [] mode = "encodeUserPassword" -> c \in Range(S("@/?:"))
              [] mode = "encodeQueryComponent" -> TRUE
              [] mode = "encodeFragment" -> FALSE
              [] OTHER -> TRUE
       ELSE IF mode = "encodeFragment" /\ c \in Range(S("!()*")) THEN FALSE
       ELSE TRUE

EscapeCharNoPercent(c, mode) == <<c>>

EscapeChar(c, mode) ==
  IF ~shouldEscape(c, mode) THEN <<c>>
  ELSE IF c = " " /\ mode = "encodeQueryComponent" THEN <<"+">>
  ELSE <<"%", HexDigits[(CodeOf(c) \div 16) + 1], HexDigits[(CodeOf(c) % 16) + 1]>>

\* url.escape(s, mode)
RECURSIVE escape(_, _)
escape(s, mode) ==
  IF s = <<>> THEN <<>> ELSE EscapeChar(Head(s), mode) \o escape(Tail(s), mode)

\* url.unescape(s, mode): [val, err]
RECURSIVE unescape(_, _)
unescape(s, mode) ==
  IF s = <<>> THEN [val |-> <<>>, err |-> NoErr]
  ELSE LET c == Head(s) IN
       IF c = "%"
       THEN IF Len(s) < 3 \/ ~IsHex(s[2]) \/ ~IsHex(s[3])
            THEN [val |-> <<>>, err |-> "invalid URL escape"]
            ELSE IF mode = "encodeHost" /\ DigitValue(s[2]) < 8 /\ <<s[2], s[3]>> # <<"2", "5">>
            THEN [val |-> <<>>, err |-> "invalid URL escape"]
            ELSE LET r == unescape(From(s, 4), mode) IN
                 IF r.err # NoErr THEN r
                 ELSE [val |-> <<CharOf(DigitValue(s[2]) * 16 + DigitValue(s[3]))>> \o r.val,
                       err |-> NoErr]
       ELSE IF mode = "encodeHost" /\ shouldEscape(c, "encodeHost")
       THEN [val |-> <<>>, err |-> "invalid character in host name"]
       ELSE LET r == unescape(Tail(s), mode) IN
            IF r.err # NoErr THEN r
            ELSE [val |-> <<IF c = "+" /\ mode = "encodeQueryComponent" THEN " " ELSE c>> \o r.val,
                  err |-> NoErr]

\* strings.Count(s, c) for a one-character c
Count(s, c) == Cardinality({n \in 1..Len(s) : s[n] = c})

\* url.getScheme: [scheme, rest, err]
RECURSIVE getSchemeLoop(_, _)
getSchemeLoop(rawURL, n) ==
  IF n > Len(rawURL) THEN [scheme |-> <<>>, rest |-> rawURL, err |-> NoErr]
  ELSE LET c == rawURL[n] IN
       IF IndexOf(LowerLetters, c) # 0 \/ IndexOf(UpperLetters, c) # 0
       THEN getSchemeLoop(rawURL, n + 1)
       ELSE IF IndexOf(Digits, c) # 0 \/ c \in {"+", "-", "."}
       THEN IF n = 1 THEN [scheme |-> <<>>, rest |-> rawURL, err |-> NoErr]
            ELSE getSchemeLoop(rawURL, n + 1)
       ELSE IF c = ":"
       THEN IF n = 1 THEN [scheme |-> <<>>, rest |-> <<>>, err |-> "missing protocol scheme"]
            ELSE [scheme |-> Upto(rawURL, n - 1), rest |-> From(rawURL, n + 1), err |-> NoErr]
       ELSE [scheme |-> <<>>, rest |-> rawURL, err |-> NoErr]

getScheme(rawURL) == getSchemeLoop(rawURL, 1)

\* url.validOptionalPort
validOptionalPort(port) ==
  port = <<>> \/ (port[1] = ":" /\ \A n \in 2..Len(port) : IndexOf(Digits, port[n]) # 0)

\* url.parseHost (no IPv6 literal): [val, err]
parseHost(host) ==
  LET n == LastIndexOf(host, ":") IN
  IF n # 0 /\ ~validOptionalPort(From(host, n))
  THEN [val |-> <<>>, err |-> "invalid port after host"]
  ELSE unescape(host, "encodeHost")

\* url.validUserinfo
validUserinfo(s) ==
  \A n \in 1..Len(s) : IsAlnum(s[n]) \/ s[n] \in Range(S("-._:~!$&()*+,;=%@")) \cup {Apostrophe}

NoUser == [present |-> FALSE, username |-> <<>>, password |-> <<>>, passwordSet |-> FALSE]

AuthorityError(e) == [user |-> NoUser, host |-> <<>>, err |-> e]

\* the user of userinfo[:colon] and userinfo[colon+1:], unescaped as name and pass
parseUserPassword(host, colon, name, pass) ==
  IF name.err # NoErr THEN AuthorityError(name.err)
  ELSE IF colon = 0
  THEN [user |-> [present |-> TRUE, username |-> name.val, password |-> <<>>, passwordSet |-> FALSE],
        host |-> host, err |-> NoErr]
  ELSE IF pass.err # NoErr THEN AuthorityError(pass.err)
  ELSE [user |-> [present |-> TRUE, username |-> name.val, password |-> pass.val, passwordSet |-> TRUE],
        host |-> host, err |-> NoErr]

parseUserinfo(host, userinfo, colon) ==
  IF ~validUserinfo(userinfo) THEN AuthorityError("invalid userinfo")
  ELSE parseUserPassword(host, colon,
         unescape(IF colon = 0 THEN userinfo ELSE Upto(userinfo, colon - 1), "encodeUserPassword"),
         unescape(From(userinfo, colon + 1), "encodeUserPassword"))

\* h is the host parsed from authority[n+1:], n the last "@" of authority
parseAuthorityAt(authority, n, h) ==
  IF h.err # NoErr THEN AuthorityError(h.err)
  ELSE IF n = 0 THEN [user |-> NoUser, host |-> h.val, err |-> NoErr]
  ELSE parseUserinfo(h.val, Upto(authority, n - 1), IndexOf(Upto(authority, n - 1), ":"))

\* url.parseAuthority: [user, host, err]
parseAuthority(authority) ==
  parseAuthorityAt(authority, LastIndexOf(authority, "@"),
                   parseHost(From(authority, LastIndexOf(authority, "@") + 1)))

ZeroURL ==
  [err |-> NoErr, Scheme |-> <<>>, Opaque |-> <<>>, User |-> NoUser, Host |-> <<>>,
   Path |-> <<>>, RawQuery |-> <<>>, ForceQuery |-> FALSE]

\* the URL of an authority and a path once both are parsed
urlparseResult(u0, hasAuthority, auth, path) ==
  IF hasAuthority /\ auth.err # NoErr THEN [ZeroURL EXCEPT !.err = auth.err]
  ELSE IF path.err # NoErr THEN [ZeroURL EXCEPT !.err = path.err]
  ELSE IF hasAuthority
       THEN [u0 EXCEPT !.User = auth.user, !.Host = auth.host, !.Path = path.val]
       ELSE [u0 EXCEPT !.Path = path.val]

\* rest[2:] cut at its first "/", at position slash of it (0: none)
urlparseAuthority(u0, rest, slash) ==
  urlparseResult(u0, TRUE,
    parseAuthority(IF slash = 0 THEN From(rest, 3) ELSE SubSeq(rest, 3, slash + 1)),
    unescape(IF slash = 0 THEN <<>> ELSE From(rest, slash + 2), "encodePath"))

\* rest is what follows the scheme, without the query
urlparseRest(u0, rest) ==
  IF ~HasPrefix(rest, S("/")) /\ u0.Scheme # <<>> THEN [u0 EXCEPT !.Opaque = rest]
  ELSE IF ~HasPrefix(rest, S("/")) /\ IndexOf(rest, ":") # 0
          /\ (IndexOf(rest, "/") = 0 \/ IndexOf(rest, ":") < IndexOf(rest, "/"))
  THEN [ZeroURL EXCEPT !.err = "first path segment in URL cannot contain colon"]
  ELSE IF HasPrefix(rest, S("//")) THEN urlparseAuthority(u0, rest, IndexOf(From(rest, 3), "/"))
  ELSE urlparseResult(u0, FALSE, AuthorityError(NoErr), unescape(rest, "encodePath"))

\* the split of what follows the scheme at its query
urlparseQuery(scheme, rest, forced, q) ==
  urlparseRest([ZeroURL EXCEPT !.Scheme = ToLower(scheme),
                               !.RawQuery = IF forced \/ q = 0 THEN <<>> ELSE From(rest, q + 1),
                               !.ForceQuery = forced],
               IF forced THEN Upto(rest, Len(rest) - 1)
               ELSE IF q = 0 THEN rest ELSE Upto(rest, q - 1))

urlparseScheme(sch) ==
  IF sch.err # NoErr THEN [ZeroURL EXCEPT !.err = sch.err]
  ELSE urlparseQuery(sch.scheme, sch.rest,
         sch.rest # <<>> /\ sch.rest[Len(sch.rest)] = "?" /\ Count(sch.rest, "?") = 1,
         IndexOf(sch.rest, "?"))

\* url.parse(rawURL, false), after the fragment has been cut off
urlparse(rawURL) ==
  IF \E n \in 1..Len(rawURL) : rawURL[n] \in {"\t", "\n", "\r", "<byte>"}
  THEN [ZeroURL EXCEPT !.err = "invalid control character in URL"]
  ELSE IF rawURL = S("*") THEN [ZeroURL EXCEPT !.Path = S("*")]
  ELSE urlparseScheme(getScheme(rawURL))

\* the URL parsed from what precedes the fragment, frag what follows "#"
ParseFragment(u, frag) ==
  IF u.err # NoErr THEN u
  ELSE IF unescape(frag, "encodeFragment").err # NoErr
       THEN [ZeroURL EXCEPT !.err = "invalid URL escape"]
       ELSE u

\* url.Parse(rawURL)
Parse(rawURL) ==
  IF IndexOf(rawURL, "#") = 0 THEN urlparse(rawURL)
  ELSE ParseFragment(urlparse(Upto(rawURL, IndexOf(rawURL, "#") - 1)),
                     From(rawURL, IndexOf(rawURL, "#") + 1))

\* url.parseQuery, errors dropped as URL.Query drops them: the pairs in their order
RECURSIVE parseQuery(_)
parseQuery(query) ==
  IF query = <<>> THEN <<>>
  ELSE LET amp == IndexOf(query, "&")
           pair == IF amp = 0 THEN query ELSE Upto(query, amp - 1)
           more == IF amp = 0 THEN <<>> ELSE From(query, amp + 1)
           eq == IndexOf(pair, "=")
           k == unescape(IF eq = 0 THEN pair ELSE Upto(pair, eq - 1), "encodeQueryComponent")
           v == unescape(IF eq = 0 THEN <<>> ELSE From(pair, eq + 1), "encodeQueryComponent")
       IN IF IndexOf(pair, ";") # 0 \/ pair = <<>> \/ k.err # NoErr \/ v.err # NoErr
          THEN parseQuery(more)
          ELSE <<[key |-> k.val, value |-> v.val]>> \o parseQuery(more)

\* url.Values: each key with the sequence of its values
Values(pairs) ==
  [k \in {pairs[n].key : n \in DOMAIN pairs} |->
     LET at == {n \in DOMAIN pairs : pairs[n].key = k}
         RECURSIVE Collect(_)
         Collect(n) == IF n > Len(pairs) THEN <<>>
                       ELSE (IF n \in at THEN <<pairs[n].value>> ELSE <<>>) \o Collect(n + 1)
     IN Collect(1)]

Query(u) == Values(parseQuery(u.RawQuery))

\* net.SplitHostPort (no IPv6 literal): [host, port, err]
SplitHostPort(hostport) ==
  LET n == LastIndexOf(hostport, ":") IN
  IF n = 0 THEN [host |-> <<>>, port |-> <<>>, err |-> "missing port in address"]
  ELSE IF IndexOf(Upto(hostport, n - 1), ":") # 0
       THEN [host |-> <<>>, port |-> <<>>, err |-> "too many colons in address"]
       ELSE [host |-> Upto(hostport, n - 1), port |-> From(hostport, n + 1), err |-> NoErr]

(***************************************************************************)
(* splitConnectionStringURL.  order is the order in which the loop         *)
(* "for k, v := range query" visits the keys of the query: Go fixes none.  *)
(***************************************************************************)
\* the sequences that hold every element of set once
Orders(set) ==
  {o \in [1..Cardinality(set) -> set] : \A a, b \in DOMAIN o : o[a] = o[b] => a = b}

URLServerFirstSegment(host, path) ==
  IF Len(path) > 0
  THEN host \o S("\\") \o (LET rest == From(path, 2)
                               n == IndexOf(rest, "/")
                           IN IF n = 0 THEN rest ELSE Upto(rest, n - 1))
  ELSE host

\* res["server"]: host and the path without its first character
URLServer(host, path) ==
  IF Len(path) > 0 THEN host \o S("\\") \o From(path, 2) ELSE host

\* the map before the loop over the query
URLBase(u) ==
  LET hp == SplitHostPort(u.Host)
      host == IF hp.err # NoErr THEN u.Host ELSE hp.host
      r0 == EmptyMap
      r1 == IF u.User.present THEN MapPut(r0, S("user id"), u.User.username) ELSE r0
      r2 == IF u.User.present /\ u.User.passwordSet
            THEN MapPut(r1, S("password"), u.User.password) ELSE r1
      r3 == MapPut(r2, S("server"), URLServer(host, u.Path))
  IN IF Len(hp.port) > 0 THEN MapPut(r3, S("port"), hp.port) ELSE r3

\* one iteration of the loop over the query: acc is [res, err]
URLQueryEntry(acc, k, v) ==
  IF Len(v) > 1 THEN [acc EXCEPT !.err = "key provided more than once"]
  ELSE [acc EXCEPT !.res = MapPut(acc.res, ToLower(k), v[1])]

RECURSIVE URLQueryLoop(_, _, _)
URLQueryLoop(acc, query, order) ==
  IF order = <<>> \/ acc.err # NoErr THEN acc
  ELSE URLQueryLoop(URLQueryEntry(acc, Head(order), query[Head(order)]), query, Tail(order))

splitConnectionStringURL(dsn, order) ==
  LET u == Parse(dsn) IN
  IF u.err # NoErr THEN [res |-> EmptyMap, err |-> u.err]
  ELSE IF u.Scheme # S("sqlserver") THEN [res |-> EmptyMap, err |-> "scheme is not recognized"]
  ELSE URLQueryLoop([res |-> URLBase(u), err |-> NoErr], Query(u), order)

\* the keys of the query of dsn, empty when dsn does not parse
QueryKeys(dsn) == LET u == Parse(dsn) IN IF u.err # NoErr THEN {} ELSE DOMAIN Query(u)

(***************************************************************************)
(* connectParams.toUrl, and URL.String of its result.                      *)
(***************************************************************************)
QueryEscape(s) == escape(s, "encodeQueryComponent")

\* q.Add(name, value) when present
QueryAdd(present, name, value) ==
  IF present THEN <<[key |-> S(name), value |-> value]>> ELSE <<>>

\* url.Values.Encode: the pairs by sorted key, each escaped, joined by "&"
RECURSIVE Encode(_)
Encode(q) ==
  IF q = <<>> THEN <<>>
  ELSE QueryEscape(q[1].key) \o S("=") \o QueryEscape(q[1].value)
         \o (IF Len(q) > 1 THEN S("&") ELSE <<>>) \o Encode(Tail(q))

\* the query of toUrl; the keys are added so that they are in sorted order here
toUrlQuery(p) ==
  QueryAdd(p.columnEncryption, "columnEncryption", S("true"))
    \o QueryAdd(p.database # <<>>, "database", p.database)
    \o QueryAdd(p.keyStoreAuthentication # <<>>, "keyStoreAuthentication", p.keyStoreAuthentication)
    \o QueryAdd(p.keyStoreLocation # <<>>, "keyStoreLocation", p.keyStoreLocation)
    \o QueryAdd(p.keyStoreSecret # <<>>, "keyStoreSecret", p.keyStoreSecret)
    \o QueryAdd(p.logFlags # U64Zero, "log", FormatUint(p.logFlags))

toUrl(p) ==
  [ZeroURL EXCEPT !.Scheme = S("sqlserver"), !.Host = p.host,
                  !.User = [present |-> TRUE, username |-> p.user, password |-> p.password,
                            passwordSet |-> TRUE],
                  !.Path = p.instance,
                  !.RawQuery = Encode(toUrlQuery(p))]

\* url.Userinfo.String
UserinfoString(user) ==
  escape(user.username, "encodeUserPassword")
    \o (IF user.passwordSet THEN S(":") \o escape(user.password, "encodeUserPassword") ELSE <<>>)

\* url.URL.String, for a URL with a scheme and no fragment
URLString(u) ==
  LET path == IF u.Path = S("*") THEN u.Path ELSE escape(u.Path, "encodePath") IN
  u.Scheme \o S(":")
    \o (IF u.Opaque # <<>> THEN u.Opaque
        ELSE (IF u.Host # <<>> \/ u.Path # <<>> \/ u.User.present THEN S("//") ELSE <<>>)
               \o (IF u.User.present THEN UserinfoString(u.User) \o S("@") ELSE <<>>)
               \o escape(u.Host, "encodeHost")
               \o (IF path # <<>> /\ path[1] # "/" /\ u.Host # <<>> THEN S("/") ELSE <<>>)
               \o path)
    \o (IF u.ForceQuery \/ u.RawQuery # <<>> THEN S("?") \o u.RawQuery ELSE <<>>)

(***************************************************************************)
(* The DSNs and environments the calls are made with.                      *)
(***************************************************************************)
MaxLen == 4
MaxPairs == 2
MaxUrlLen == 3

\* every text over chars of at most n characters
RECURSIVE Texts(_, _)
Texts(chars, n) ==
  IF n = 0 THEN {<<>>}
  ELSE LET shorter == Texts(chars, n - 1) IN
       shorter \cup {Append(s, c) : s \in shorter, c \in chars}

\* the texts of at most n elements of parts, joined by sep
RECURSIVE Joined(_, _, _)
Joined(parts, sep, n) ==
  IF n <= 1 THEN parts
  ELSE LET fewer == Joined(parts, sep, n - 1) IN
       fewer \cup {s \o sep \o part : s \in fewer, part \in parts}

TokenChars == {"a", "B", " ", "=", ";", "{", "}"}

PairKeys == {S("a"), S("A "), S(" b")}
PairValues == {<<>>, S(" x "), S("{a}}b}"), S("{ x;=} "), S("{x}y"), S("{x")}
PairTexts == Joined({k \o S("=") \o v : k \in PairKeys, v \in PairValues}, S(";"), MaxPairs)

\* bodies of the semicolon and of the ODBC syntax
TokenizerTexts == Texts(TokenChars, MaxLen) \cup PairTexts

BracedTexts == {S("k={") \o m \o S("}") : m \in Texts({"a", " ", "}", ";", "=", "{"}, MaxLen)}

ParamTexts ==
  {S("packet size=100"), S("packet size=512"), S("packet size=4096"), S("packet size=32767"),
   S("packet size=32768"), S("packet size=65535"), S("packet size=65536"),
   S("packet size=999999"), S("packet size=0x200"), S("packet size=abc"), S("packet size="),
   S("applicationintent=ReadOnly"), S("applicationintent=readonly"),
   S("applicationintent=ReadWrite"), S("applicationintent"),
   S("database=foo"), S("database="), S("database=a b"),
   S("hostnameincertificate=cert"), S("hostnameincertificate="),
   S("server=myhost\\inst1"), S("server=."), S("server=(local)"), S("server=(Local)\\i\\j"),
   S("server=a b"),
   S("server=h:x"), S("server="), S("server=H\\i j/k"),
   S("log=63"), S("log=0"), S("log=x"), S("log=18446744073709551615"),
   S("columnencryption=TRUE"), S("columnencryption=1"), S("columnencryption=no"),
   S("keystoreauthentication=PFX"), S("keystoreauthentication=abc"),
   S("keystorelocation=/ks"), S("keystorelocation=/nope"), S("keystorelocation="),
   S("keystoresecret=s e&c"),
   S("encrypt=disable"), S("encrypt=Disable"), S("encrypt=true"), S("encrypt=maybe"),
   S("trustservercertificate=false"), S("trustservercertificate=1"),
   S("trustservercertificate=x"),
   S("port=1433"), S("port=99999"), S("connection timeout=30"), S("dial timeout=x"),
   S("keepalive=18446744073709551615"), S("user id=u:1"), S("password=p@/"),
   S("workstation id=w"), S("serverspn=spn"), S("app name=app"), S("certificate=c"),
   S("failoverpartner=fp"), S("failoverport=0x10"), S("failoverport=70000")}

ResolverTexts == Joined(ParamTexts, S(";"), 2)

UrlAuthorities ==
  {S("h"), S("h:1433"), S("u:p@h"), S("u@h"), <<>>, S("h:x"), S("a%20b"), S("u%40:p%3A@H.x:1")}
UrlPaths == {<<>>, S("/"), S("/i"), S("/i/j"), S("/i%20j/"), S("/%zz")}
UrlQueries ==
  {<<>>, S("?"), S("?database=a"), S("?database=a&database=b"), S("?Database=a&database=b"),
   S("?database=a&database=a"), S("?server=z"), S("?a=1&A=2&a=3"), S("?DATABASE=a+b&log=63"),
   S("?x=%zz&y;z=1&=e&database")}

UrlChars == {"h", "A", "1", "/", "?", "&", "=", ":", "@", "%"}

UrlTexts ==
  {a \o b \o q : a \in UrlAuthorities, b \in UrlPaths, q \in UrlQueries}
    \cup Texts(UrlChars, MaxUrlLen)

\* server and database values of letters and digits, and one DSN of each
\* syntax for a pair of them
PlainServers == {<<>>, S("h1"), S("Local")}
PlainDatabases == {<<>>, S("foo"), S("D2")}

SemicolonForm(h, d) == S("server=") \o h \o S(";database=") \o d
OdbcForm(h, d) == S("odbc:") \o SemicolonForm(h, d)
URLForm(h, d) == S("sqlserver://") \o h \o S("?database=") \o d

PlainTexts ==
  {SemicolonForm(h, d) : h \in PlainServers, d \in PlainDatabases}
    \cup {OdbcForm(h, d) : h \in PlainServers, d \in PlainDatabases}
    \cup {URLForm(h, d) : h \in PlainServers, d \in PlainDatabases}

Inputs ==
  TokenizerTexts \cup ResolverTexts \cup PlainTexts
    \cup {S("odbc:") \o s : s \in TokenizerTexts \cup BracedTexts \cup ParamTexts}
    \cup {S("sqlserver://") \o s : s \in UrlTexts}

Env0 == [files |-> {S("/ks")}, hostname |-> [ok |-> TRUE, name |-> S("ws")]]
Env1 == [files |-> {}, hostname |-> [ok |-> FALSE, name |-> <<>>]]

(***************************************************************************)
(* The state machine: one call of parseConnectParams(dsn) in env, and,     *)
(* after a call that succeeded, a second call on p.toUrl().String().       *)
(***************************************************************************)
VARIABLES
  dsn,      \* the argument of parseConnectParams
  env,      \* the files that exist and the local hostname
  pc,       \* "start", "odbc" (in the loop of the ODBC tokenizer), "resolve", "done"
  i,        \* the position the ODBC tokenizer reads next
  sc,       \* the locals of splitConnectionStringOdbc
  params,   \* the map the tokenizer returned
  p,        \* the connectParams returned
  err,      \* the error returned, NoErr for nil
  stats,    \* the number of os.Stat calls of this call
  ran,      \* the tokenizers this call has run
  first     \* <<p>> of the first call once toUrl has been taken of it, else <<>>

vars == <<dsn, env, pc, i, sc, params, p, err, stats, ran, first>>

\* dsn[len("odbc:"):]
OdbcBody == From(dsn, 6)

Init ==
  /\ \/ dsn \in Inputs /\ env = Env0
     \/ dsn \in ParamTexts /\ env = Env1
  /\ pc = "start"
  /\ i = 1
  /\ sc = OdbcInit
  /\ params = EmptyMap
  /\ p = ZeroParams
  /\ err = NoErr
  /\ stats = 0
  /\ ran = <<>>
  /\ first = <<>>

\* strings.HasPrefix(dsn, "odbc:"): splitConnectionStringOdbc is entered
StartOdbc ==
  /\ pc = "start"
  /\ HasPrefix(dsn, S("odbc:"))
  /\ pc' = "odbc"
  /\ i' = 1
  /\ sc' = OdbcInit
  /\ ran' = Append(ran, "splitConnectionStringOdbc")
  /\ UNCHANGED <<dsn, env, params, p, err, stats, first>>

\* one iteration of "for i, c := range dsn"
OdbcStep ==
  /\ pc = "odbc"
  /\ i <= Len(OdbcBody)
  /\ sc' = OdbcChar(sc, OdbcBody[i], i - 1)
  /\ IF sc'.err # NoErr
     THEN pc' = "done" /\ err' = sc'.err /\ i' = i
     ELSE pc' = pc /\ err' = err /\ i' = i + 1
  /\ UNCHANGED <<dsn, env, params, p, stats, ran, first>>

\* the end of the input: the switch after the loop, and the return
OdbcEnd ==
  /\ pc = "odbc"
  /\ i > Len(OdbcBody)
  /\ sc' = OdbcEndOfInput(sc, Len(OdbcBody))
  /\ IF sc'.err # NoErr
     THEN pc' = "done" /\ err' = sc'.err /\ params' = params
     ELSE pc' = "resolve" /\ err' = err /\ params' = sc'.res
  /\ UNCHANGED <<dsn, env, i, p, stats, ran, first>>

\* strings.HasPrefix(dsn, "sqlserver://"): splitConnectionStringURL
TokenizeURL ==
  /\ pc = "start"
  /\ ~HasPrefix(dsn, S("odbc:"))
  /\ HasPrefix(dsn, S("sqlserver://"))
  /\ \E order \in Orders(QueryKeys(dsn)) :
       LET r == splitConnectionStringURL(dsn, order) IN
       IF r.err # NoErr
       THEN pc' = "done" /\ err' = r.err /\ params' = params
       ELSE pc' = "resolve" /\ err' = err /\ params' = r.res
  /\ ran' = Append(ran, "splitConnectionStringURL")
  /\ UNCHANGED <<dsn, env, i, sc, p, stats, first>>

\* otherwise: splitConnectionString
TokenizeSemicolon ==
  /\ pc = "start"
  /\ ~HasPrefix(dsn, S("odbc:"))
  /\ ~HasPrefix(dsn, S("sqlserver://"))
  /\ params' = splitConnectionString(dsn)
  /\ pc' = "resolve"
  /\ ran' = Append(ran, "splitConnectionString")
  /\ UNCHANGED <<dsn, env, i, sc, p, err, stats, first>>

\* the rest of parseConnectParams
ResolveParams ==
  /\ pc = "resolve"
  /\ LET st == Resolve(params, env) IN
       p' = st.p /\ err' = st.err /\ stats' = st.stats
  /\ pc' = "done"
  /\ UNCHANGED <<dsn, env, i, sc, params, ran, first>>

\* p.toUrl().String() of the p a first call returned, handed to a second call
Reserialize ==
  /\ pc = "done"
  /\ err = NoErr
  /\ first = <<>>
  /\ first' = <<p>>
  /\ dsn' = URLString(toUrl(p))
  /\ pc' = "start"
  /\ i' = 1
  /\ sc' = OdbcInit
  /\ params' = EmptyMap
  /\ p' = ZeroParams
  /\ stats' = 0
  /\ ran' = <<>>
  /\ UNCHANGED <<env, err>>

Next ==
  \/ StartOdbc
  \/ OdbcStep
  \/ OdbcEnd
  \/ TokenizeURL
  \/ TokenizeSemicolon
  \/ ResolveParams
  \/ Reserialize

Spec == Init /\ [][Next]_vars

(***************************************************************************)
(* What the properties below read of a state.                              *)
(***************************************************************************)
\* the tokenizer of this call has returned without an error
Tokenized(tokenizer) == ran = <<tokenizer>> /\ pc = "resolve"

\* parseConnectParams has returned
Returned == pc = "done"

\* parseConnectParams has returned a configuration and no error
Resolved == pc = "done" /\ err = NoErr

(***************************************************************************)
(* C1  packet size                                                         *)
(***************************************************************************)
\* a text that is an unsigned integer literal, of whatever magnitude
IsUnsignedInteger(text) == ParseUint(text, 0, 64).err # "syntax"

\* the value of an unsigned integer literal clamped into 512..32767
ClampedInto512To32767(text) ==
  LET r == ParseUint(text, 0, 64) IN
  IF r.err = "range" \/ U64Exceeds(r.val, 16) THEN 32767
  ELSE IF r.val[1] < 512 THEN 512
  ELSE IF r.val[1] > 32767 THEN 32767
  ELSE r.val[1]

\* C1: whenever the value of "packet size" is an unsigned integer,
\* parseConnectParams does not fail on packet size, and the packetSize it
\* returns without error is that integer clamped into [512, 32767].
PacketSizeIsClampedNeverRejected ==
  (Returned /\ Has(params, S("packet size")) /\ IsUnsignedInteger(params[S("packet size")]))
    => /\ err # "invalid packet size"
       /\ err = NoErr => p.packetSize = ClampedInto512To32767(params[S("packet size")])

(***************************************************************************)
(* C2  repeated query keys of a URL                                        *)
(***************************************************************************)
\* the names the query string of a URL assigns, in their order
QueryNames(rawURL) ==
  LET pairs == parseQuery(Parse(rawURL).RawQuery) IN
  [n \in 1..Len(pairs) |-> ToLower(pairs[n].key)]

\* C2: the URL tokenizer never returns a map for a query string that
\* assigns one lower-cased name more than once.
RepeatedQueryNameIsAnError ==
  Tokenized("splitConnectionStringURL")
    => \A m, n \in 1..Len(QueryNames(dsn)) :
         m # n => QueryNames(dsn)[m] # QueryNames(dsn)[n]

(***************************************************************************)
(* C3  braced ODBC values                                                  *)
(***************************************************************************)
LoneBrace == "<lone closing brace>"

\* text with each "}}" replaced by one "}"; a "}" that is not doubled is
\* marked, for no value holds the mark
RECURSIVE Undoubled(_)
Undoubled(text) ==
  IF text = <<>> THEN <<>>
  ELSE IF Head(text) # "}" THEN <<Head(text)>> \o Undoubled(Tail(text))
  ELSE IF Len(text) >= 2 /\ text[2] = "}" THEN <<"}">> \o Undoubled(Tail(Tail(text)))
  ELSE <<LoneBrace>> \o Undoubled(Tail(text))

\* the text of the body between the "{" at position open (counted from 0)
\* and the "}" just before position at
BetweenBraces(open, at) == SubSeq(OdbcBody, open + 2, at - 1)

\* C3: every value the ODBC tokenizer commits for a braced value is the text
\* between its opening "{" and its terminating "}", with each "}}" read as
\* one "}" and every other character kept, untrimmed.
BracedValueIsLiteral ==
  \A n \in 1..Len(sc.writes) :
    sc.writes[n].open >= 0
      => /\ OdbcBody[sc.writes[n].open + 1] = "{"
         /\ OdbcBody[sc.writes[n].at] = "}"
         /\ sc.writes[n].value = Undoubled(BetweenBraces(sc.writes[n].open, sc.writes[n].at))

\* "{a}}b}" has been committed as "a}b"
BracedValueCommitted ==
  /\ OdbcBody = S("a={a}}b}")
  /\ Tokenized("splitConnectionStringOdbc")
  /\ params = [k \in {S("a")} |-> S("a}b")]
  /\ sc.writes = <<[key |-> S("a"), value |-> S("a}b"), at |-> 8, open |-> 2]>>

\* a braced value holding ";", "=", "{" and spaces has been committed
BracedValueKeepsSeparators ==
  /\ OdbcBody = S("k={ ;={}")
  /\ Tokenized("splitConnectionStringOdbc")
  /\ params = [k \in {S("k")} |-> S(" ;={")]

(***************************************************************************)
(* C4  the ODBC tokenizer at the end of its input                          *)
(***************************************************************************)
\* the loop of the ODBC tokenizer has read the whole body, and the switch
\* after it has been executed
EndOfInputReached ==
  /\ ran = <<"splitConnectionStringOdbc">>
  /\ pc \in {"resolve", "done"}
  /\ i > Len(OdbcBody)

\* what the switch after the loop has committed: it alone writes at Len(body)
CommittedAtEnd ==
  [n \in {m \in 1..Len(sc.writes) : sc.writes[m].at = Len(OdbcBody)} |->
     [key |-> sc.writes[n].key, value |-> sc.writes[n].value]]

\* the one write the state the loop ended in has to commit; sc.key and
\* sc.value are the buffers as the loop left them
ExpectedAtEnd ==
  CASE sc.state = parserStateKey ->
         [key |-> ToLower(TrimRightSpace(sc.key)), value |-> <<>>]
    [] sc.state = parserStateBeginValue -> [key |-> sc.key, value |-> <<>>]
    [] sc.state = parserStateBareValue -> [key |-> sc.key, value |-> TrimRightSpace(sc.value)]
    [] sc.state = parserStateBracedValueClosingBrace -> [key |-> sc.key, value |-> sc.value]

\* C4: at the end of the input the ODBC tokenizer fails exactly in state
\* BracedValue; BeforeKey and EndValue commit nothing; Key, BeginValue,
\* BareValue and BracedValueClosingBrace commit one entry: the normalized key
\* with the empty value, the empty value, the buffer without its trailing
\* whitespace, the buffer as it is.
EndOfInputFinalizesByState ==
  EndOfInputReached
    => /\ sc.err # NoErr <=> sc.state = parserStateBracedValue
       /\ sc.state \in {parserStateBeforeKey, parserStateEndValue, parserStateBracedValue}
            => DOMAIN CommittedAtEnd = {}
       /\ sc.state \in {parserStateKey, parserStateBeginValue, parserStateBareValue,
                        parserStateBracedValueClosingBrace}
            => /\ Cardinality(DOMAIN CommittedAtEnd) = 1
               /\ \A n \in DOMAIN CommittedAtEnd : CommittedAtEnd[n] = ExpectedAtEnd
               /\ sc.res[ExpectedAtEnd.key] = ExpectedAtEnd.value
       /\ sc.err = NoErr => (pc = "resolve" => params = sc.res)

\* an input that ends inside a braced value has been refused
UnterminatedBraceRefused ==
  /\ EndOfInputReached
  /\ OdbcBody = S("a={x")
  /\ sc.state = parserStateBracedValue
  /\ err = "odbc: unexpected end of braced value"

\* an input has ended in a bare value with trailing whitespace to trim
EndedInBareValue ==
  EndOfInputReached /\ sc.state = parserStateBareValue /\ sc.value # TrimRightSpace(sc.value)

(***************************************************************************)
(* C5  hostInCertificate                                                   *)
(***************************************************************************)
\* C5 as stated: after a successful resolution hostInCertificate is never
\* empty; it is the value of "hostnameincertificate", with the flag set,
\* when that key is present, else the resolved host, with the flag clear.
HostInCertificateNeverEmpty ==
  Resolved
    => /\ p.hostInCertificate # <<>>
       /\ IF Has(params, S("hostnameincertificate"))
          THEN p.hostInCertificate = params[S("hostnameincertificate")]
                 /\ p.hostInCertificateProvided
          ELSE p.hostInCertificate = p.host /\ ~p.hostInCertificateProvided

\* C5, amended: after a successful resolution hostInCertificate is the value
\* of "hostnameincertificate", which may be empty, with the flag set, when
\* that key is present, else the resolved host, which never is empty, with
\* the flag clear; so it is empty exactly when the key is present with an
\* empty value.
HostInCertificateIsExplicitOrHost ==
  Resolved
    => /\ IF Has(params, S("hostnameincertificate"))
          THEN p.hostInCertificate = params[S("hostnameincertificate")]
                 /\ p.hostInCertificateProvided
          ELSE p.hostInCertificate = p.host /\ ~p.hostInCertificateProvided
       /\ p.host # <<>>
       /\ p.hostInCertificate = <<>>
            <=> Has(params, S("hostnameincertificate")) /\ params[S("hostnameincertificate")] = <<>>

\* a resolution has succeeded with an explicit, empty hostnameincertificate
EmptyHostInCertificateResolved ==
  /\ Resolved
  /\ dsn = S("hostnameincertificate=")
  /\ p.hostInCertificateProvided
  /\ p.hostInCertificate = <<>>
  /\ p.host = S("localhost")

(***************************************************************************)
(* C6  the read-only intent                                                *)
(***************************************************************************)
ReadOnlyRequested ==
  Has(params, S("applicationintent")) /\ params[S("applicationintent")] = S("ReadOnly")

\* C6: a configuration returned without error has the read-only bit of
\* typeFlags exactly when "applicationintent" is present with the value
\* ReadOnly, and then its database is not empty; ReadOnly with an empty or
\* absent database makes parseConnectParams fail.
ReadOnlyIntentNeedsDatabase ==
  /\ Resolved => /\ fReadOnlyIntent \in p.typeFlags <=> ReadOnlyRequested
                 /\ fReadOnlyIntent \in p.typeFlags => p.database # <<>>
  /\ (Returned /\ ReadOnlyRequested /\ Get(params, S("database")) = <<>>) => err # NoErr

\* ReadOnly with a database has set the bit
ReadOnlyIntentSet ==
  /\ Resolved
  /\ dsn = S("applicationintent=ReadOnly;database=foo")
  /\ fReadOnlyIntent \in p.typeFlags
  /\ p.database = S("foo")

\* ReadOnly without a database has been refused
ReadOnlyWithoutDatabaseRefused ==
  /\ Returned
  /\ dsn = S("applicationintent=ReadOnly")
  /\ err = "database must be specified when ApplicationIntent is ReadOnly"

(***************************************************************************)
(* C7  last key wins                                                       *)
(***************************************************************************)
\* the assignments the semicolon syntax makes, in the order of the input:
\* the segments that have a name
SemicolonAssignments ==
  LET parts == Split(dsn, ";")
      named == {n \in 1..Len(parts) : parts[n] # <<>> /\ SegmentName(parts[n]) # <<>>}
  IN [n \in named |-> [key |-> SegmentName(parts[n]), value |-> SegmentValue(parts[n])]]

\* the assignments the ODBC tokenizer has made, in the order of the input
OdbcAssignments ==
  [n \in 1..Len(sc.writes) |-> [key |-> sc.writes[n].key, value |-> sc.writes[n].value]]

\* map holds one entry per key assigned, with the value assigned last
LastWins(map, assignments) ==
  /\ DOMAIN map = {assignments[n].key : n \in DOMAIN assignments}
  /\ \A n \in DOMAIN assignments :
       (\A m \in DOMAIN assignments : m > n => assignments[m].key # assignments[n].key)
         => map[assignments[n].key] = assignments[n].value

\* C7: the map the semicolon tokenizer or the ODBC tokenizer returns holds
\* exactly one entry per normalized key assigned in the input, with the
\* value of the assignment that comes last in the input.
LastKeyWins ==
  /\ Tokenized("splitConnectionString") => LastWins(params, SemicolonAssignments)
  /\ Tokenized("splitConnectionStringOdbc") => LastWins(params, OdbcAssignments)

\* the ODBC tokenizer has returned the later of two values of one key
LaterValueKept ==
  /\ Tokenized("splitConnectionStringOdbc")
  /\ OdbcBody = S("a={a}}b};A = x ")
  /\ Len(sc.writes) = 2
  /\ params = [k \in {S("a")} |-> S("x")]

\* the semicolon tokenizer has returned the later of two values of one key
LaterSegmentKept ==
  /\ Tokenized("splitConnectionString")
  /\ dsn = S("A = x ;a={x}y")
  /\ params = [k \in {S("a")} |-> S("{x}y")]

(***************************************************************************)
(* C8  the round trip through toUrl                                        *)
(***************************************************************************)
\* the second call has returned: the one made with the string form of
\* toUrl of the configuration the first call returned
RoundTripReturned == first # <<>> /\ Returned

\* the fields the round trip is to preserve
RoundTripFields(q) ==
  <<q.database, q.logFlags, q.columnEncryption, q.keyStoreAuthentication,
    q.keyStoreLocation, q.keyStoreSecret>>

\* C8 as stated: for every configuration a successful call returns,
\* resolving the string form of its toUrl succeeds and returns the same
\* database, logFlags, columnEncryption and key store fields.
RoundTripPreservesFields ==
  RoundTripReturned
    => err = NoErr /\ RoundTripFields(p) = RoundTripFields(first[1])

\* a host of letters, digits, "-", ".", "_" and "~": the characters that the
\* host of a URL holds as they are and that mark neither a port nor an
\* address in brackets
PlainHost(host) ==
  \A n \in 1..Len(host) :
    host[n] \in Range(LowerLetters) \cup Range(UpperLetters) \cup Range(Digits)
                  \cup {"-", ".", "_", "~"}

\* C8, amended: the same, for the configurations whose host is a plain host.
RoundTripPreservesFieldsOfPlainHosts ==
  (RoundTripReturned /\ PlainHost(first[1].host))
    => err = NoErr /\ RoundTripFields(p) = RoundTripFields(first[1])

\* a round trip has returned a database, a secret, log flags and a key
\* store location that need escaping in a URL
RoundTripOfEscapedFields ==
  /\ RoundTripReturned
  /\ err = NoErr
  /\ PlainHost(first[1].host)
  /\ p.keyStoreSecret = S("s e&c")
  /\ p.database = S("a b")
  /\ dsn = S("sqlserver://:@localhost?database=a+b&keyStoreSecret=s+e%26c")

(***************************************************************************)
(* C9  the server of a URL                                                 *)
(***************************************************************************)
\* the host of an authority without user: what precedes its only ":", the
\* whole of it when it holds no ":" or several
HostOfAuthority(authority) ==
  IF Count(authority, ":") = 1 THEN Upto(authority, IndexOf(authority, ":") - 1)
  ELSE authority

\* the first segment of a path, without the "/" before it
FirstSegment(path) ==
  LET rest == Tail(path) IN
  IF IndexOf(rest, "/") = 0 THEN rest ELSE Upto(rest, IndexOf(rest, "/") - 1)

\* the URL tokenizer has returned a map for a URL whose query does not
\* assign "server"
ServerFromAuthorityAndPath ==
  /\ Tokenized("splitConnectionStringURL")
  /\ \A n \in 1..Len(QueryNames(dsn)) : QueryNames(dsn)[n] # S("server")

\* C9 as stated: "server" is the host, a backslash and the first segment
\* of the path when the path is not empty, and the host otherwise.
ServerIsHostAndFirstSegment ==
  ServerFromAuthorityAndPath
    => params[S("server")] =
         IF Parse(dsn).Path # <<>>
         THEN HostOfAuthority(Parse(dsn).Host) \o S("\\") \o FirstSegment(Parse(dsn).Path)
         ELSE HostOfAuthority(Parse(dsn).Host)

\* C9, amended: "server" is the host, a backslash and the whole path after
\* its first character, further "/" included, when the path is not empty,
\* and the host otherwise, unless the query assigns "server".
ServerIsHostAndWholePath ==
  ServerFromAuthorityAndPath
    => params[S("server")] =
         IF Parse(dsn).Path # <<>>
         THEN HostOfAuthority(Parse(dsn).Host) \o S("\\") \o Tail(Parse(dsn).Path)
         ELSE HostOfAuthority(Parse(dsn).Host)

\* a URL with a path of two segments has been tokenized
TwoSegmentPathTokenized ==
  /\ Tokenized("splitConnectionStringURL")
  /\ dsn = S("sqlserver://h:1433/i/j")
  /\ params = [k \in {S("server"), S("port")} |-> IF k = S("port") THEN S("1433") ELSE S("h\\i/j")]

(***************************************************************************)
(* C10  the segments of the semicolon syntax                               *)
(***************************************************************************)
\* the text of a segment before its first "=", trimmed and lower-cased
KeyText(part) ==
  ToLower(TrimSpace(IF IndexOf(part, "=") = 0 THEN part ELSE Upto(part, IndexOf(part, "=") - 1)))

\* the text of a segment after its first "=", trimmed; empty without "="
ValueText(part) ==
  IF IndexOf(part, "=") = 0 THEN <<>> ELSE TrimSpace(From(part, IndexOf(part, "=") + 1))

\* the segments of dsn between ";"
Segments == Split(dsn, ";")

\* the entry of segment n is in map, unless a later segment has its key
HoldsEntryOf(map, n) ==
  /\ KeyText(Segments[n]) \in DOMAIN map
  /\ (\A m \in n + 1..Len(Segments) : KeyText(Segments[m]) # KeyText(Segments[n])
                                        \/ Segments[m] = <<>>)
       => map[KeyText(Segments[n])] = ValueText(Segments[n])

\* C10 as stated: only the empty segments are skipped; every other segment
\* yields the entry of its key and value.
OnlyEmptySegmentsSkipped ==
  Tokenized("splitConnectionString")
    => \A n \in 1..Len(Segments) : Segments[n] # <<>> => HoldsEntryOf(params, n)

\* C10, amended: the empty segments and the segments whose key is empty are
\* skipped; every other segment yields the entry of its key and value, and
\* the map holds no other entry.
EmptySegmentsAndEmptyKeysSkipped ==
  Tokenized("splitConnectionString")
    => /\ \A n \in 1..Len(Segments) : KeyText(Segments[n]) # <<>> => HoldsEntryOf(params, n)
       /\ DOMAIN params = {KeyText(Segments[n]) : n \in 1..Len(Segments)} \ {<<>>}

\* a segment without key has been skipped next to one that has a key
KeylessSegmentSkipped ==
  /\ Tokenized("splitConnectionString")
  /\ dsn = S("=a;B")
  /\ params = [k \in {S("b")} |-> <<>>]

(***************************************************************************)
(* C11  encrypt and trustservercertificate                                 *)
(***************************************************************************)
\* "encrypt" is present with the value disable, in whatever letter case
EncryptDisabled ==
  Has(params, S("encrypt")) /\ ToLower(params[S("encrypt")]) = S("disable")

\* C11: a configuration returned without error has trustServerCertificate
\* equal to the boolean that "trustservercertificate" spells when that key
\* is present, and otherwise true exactly when "encrypt" is absent; without
\* "encrypt", encrypt is false; "encrypt" equal to disable in any letter
\* case is accepted and sets disableEncryption and leaves encrypt false;
\* encrypt and disableEncryption are never both true.
TrustFollowsKeyElseEncryptAbsence ==
  /\ Resolved
       => /\ IF Has(params, S("trustservercertificate"))
             THEN /\ params[S("trustservercertificate")] \in TrueTexts \cup FalseTexts
                  /\ p.trustServerCertificate
                       <=> params[S("trustservercertificate")] \in TrueTexts
             ELSE p.trustServerCertificate <=> ~Has(params, S("encrypt"))
          /\ ~Has(params, S("encrypt")) => ~p.encrypt
          /\ EncryptDisabled => p.disableEncryption /\ ~p.encrypt
          /\ ~(p.encrypt /\ p.disableEncryption)
  /\ (Returned /\ EncryptDisabled) => err # "invalid encrypt"

\* an explicit false has overridden the default that the absence of
\* "encrypt" sets
TrustDefaultOverridden ==
  /\ Resolved
  /\ dsn = S("trustservercertificate=false")
  /\ ~p.trustServerCertificate
  /\ ~p.encrypt

\* disable in mixed case has been accepted, with an explicit trust
EncryptDisabledInMixedCase ==
  /\ Resolved
  /\ dsn = S("encrypt=Disable;trustservercertificate=1")
  /\ p.disableEncryption
  /\ p.trustServerCertificate

(***************************************************************************)
(* C12  host and instance                                                  *)
(***************************************************************************)
\* the value of "server", empty when the key is absent
ServerText == IF Has(params, S("server")) THEN params[S("server")] ELSE <<>>

\* the text of "server" before its first backslash, the whole without one
HostText ==
  IF IndexOf(ServerText, "\\") = 0 THEN ServerText
  ELSE Upto(ServerText, IndexOf(ServerText, "\\") - 1)

\* the text of "server" after its first backslash, empty without one
InstanceText ==
  IF IndexOf(ServerText, "\\") = 0 THEN <<>>
  ELSE From(ServerText, IndexOf(ServerText, "\\") + 1)

\* C12: the host of a configuration returned without error is never empty:
\* it is the text of "server" before the first backslash, and localhost
\* when that text is ".", "(local)" in any letter case, or empty; the
\* instance is the text after the first backslash.
HostNeverEmptyLocalIsLocalhost ==
  Resolved
    => /\ p.host # <<>>
       /\ p.host = IF HostText = S(".") \/ ToLower(HostText) = S("(local)") \/ HostText = <<>>
                   THEN S("localhost") ELSE HostText
       /\ p.instance = InstanceText

\* "(Local)\i\j" has resolved to localhost and the instance "i\j"
LocalWithInstanceResolved ==
  /\ Resolved
  /\ dsn = S("server=(Local)\\i\\j")
  /\ p.host = S("localhost")
  /\ p.instance = S("i\\j")

\* "myhost\inst1" has resolved to myhost and inst1
HostAndInstanceResolved ==
  /\ Resolved
  /\ dsn = S("server=myhost\\inst1")
  /\ p.host = S("myhost")
  /\ p.instance = S("inst1")

(***************************************************************************)
(* C13  the three syntaxes agree                                           *)
(***************************************************************************)
\* text holds no brace, and none of its segments has "=" after an empty key
Braceless(text) ==
  /\ \A n \in 1..Len(text) : text[n] \notin {"{", "}"}
  /\ \A n \in 1..Len(Split(text, ";")) :
       IndexOf(Split(text, ";")[n], "=") # 0 => KeyText(Split(text, ";")[n]) # <<>>

\* the ODBC tokenizer has returned, with a map or with an error
OdbcTokenizerReturned ==
  /\ ran = <<"splitConnectionStringOdbc">>
  /\ pc = "resolve" \/ (pc = "done" /\ sc.err # NoErr)

\* C13: a server h and a database d of letters and digits resolve, from
\* each of the three syntaxes, without error to the same host, instance and
\* database: h (localhost for the empty h), no instance, and d; and on a
\* text without braces and without a segment of empty key the ODBC
\* tokenizer returns the map the semicolon tokenizer returns.
SyntaxesAgreeOnPlainValues ==
  /\ \A h \in PlainServers, d \in PlainDatabases :
       (Returned /\ dsn \in {SemicolonForm(h, d), OdbcForm(h, d), URLForm(h, d)})
         => /\ err = NoErr
            /\ p.host = (IF h = <<>> THEN S("localhost") ELSE h)
            /\ p.instance = <<>>
            /\ p.database = d
  /\ (OdbcTokenizerReturned /\ Braceless(OdbcBody))
       => /\ sc.err = NoErr
          /\ sc.res = splitConnectionString(OdbcBody)

\* the URL of a plain server and database has been resolved
PlainURLResolved ==
  /\ Resolved
  /\ dsn = URLForm(S("Local"), S("D2"))
  /\ p.host = S("Local")
  /\ p.database = S("D2")

\* the ODBC tokenizer has returned two entries for a text without braces
BracelessOdbcTokenized ==
  /\ OdbcTokenizerReturned
  /\ OdbcBody = S("A = x ; b= x ")
  /\ sc.res = [k \in {S("a"), S("b")} |-> S("x")]

(***************************************************************************)
(* C14  the configuration returned with an error                           *)
(***************************************************************************)
\* parseConnectParams has returned an error
Failed == Returned /\ err # NoErr

\* the error is the tokenizer's: no map has reached the resolution, which
\* cannot fail on the empty map
TokenizerFailed == Failed /\ params = EmptyMap

\* C14 as stated: the configuration returned with an error holds no value
\* resolved from the DSN.
NothingResolvedOnError ==
  Failed => p = ZeroParams

\* C14, amended: the configuration returned with a tokenizer's error holds
\* no value of the DSN; the one returned with the error of a field holds
\* what was resolved before that field: the log flags ParseUint returned
\* when the field is "log", and for every later field the host, instance,
\* database, user and password of the DSN.
ResolvedSoFarReturnedOnError ==
  /\ TokenizerFailed => p = ZeroParams
  /\ (Failed /\ ~TokenizerFailed /\ err = "invalid log parameter")
       => p = [ZeroParams EXCEPT !.logFlags = ParseUint(params[S("log")], 10, 64).val]
  /\ (Failed /\ ~TokenizerFailed /\ err # "invalid log parameter")
       => /\ p.host # <<>>
          /\ p.instance = InstanceText
          /\ p.database = Get(params, S("database"))
          /\ p.user = Get(params, S("user id"))
          /\ p.password = Get(params, S("password"))

\* a call has failed on "port" and returned the database and the password
\* it had resolved
PartialConfigurationReturned ==
  /\ Failed
  /\ dsn = S("password=p@/;port=99999")
  /\ err = "invalid tcp port"
  /\ p.password = S("p@/")
  /\ p.host = S("localhost")
  /\ p.port = 65535

(***************************************************************************)
(* C15  determinism                                                        *)
(***************************************************************************)
\* what parseConnectParams returns for a map: the configuration and error
ResolutionOutcome(map) == <<Resolve(map, env).p, Resolve(map, env).err>>

\* what parseConnectParams returns for the URL dsn when the loop over its
\* query visits the keys in this order
URLOutcome(order) ==
  IF splitConnectionStringURL(dsn, order).err # NoErr
  THEN <<ZeroParams, splitConnectionStringURL(dsn, order).err>>
  ELSE ResolutionOutcome(splitConnectionStringURL(dsn, order).res)

\* C15: what a call returns for a DSN, in an environment, is what every
\* call returns for that DSN in that environment: the same error or the
\* same configuration, in each of the three syntaxes.
SameOutcomeOnEveryCall ==
  /\ (Returned /\ ran = <<"splitConnectionStringURL">>)
       => \A order \in Orders(QueryKeys(dsn)) : URLOutcome(order) = <<p, err>>
  /\ (Returned /\ ran = <<"splitConnectionString">>)
       => ResolutionOutcome(splitConnectionString(dsn)) = <<p, err>>
  /\ (Returned /\ ran = <<"splitConnectionStringOdbc">> /\ sc.err = NoErr)
       => ResolutionOutcome(sc.res) = <<p, err>>

(***************************************************************************)
(* C16  keyStoreLocation                                                   *)
(***************************************************************************)
\* C16: a configuration returned without error has the keyStoreLocation of
\* a present "keystorelocation", which then is not empty and names a file
\* whose existence this call has checked, and the empty keyStoreLocation
\* without that key; a call with an empty or a missing location fails.
KeyStoreLocationExistedWhenResolved ==
  /\ Resolved
       => IF Has(params, S("keystorelocation"))
          THEN /\ params[S("keystorelocation")] # <<>>
               /\ params[S("keystorelocation")] \in env.files
               /\ p.keyStoreLocation = params[S("keystorelocation")]
               /\ stats = 1
          ELSE p.keyStoreLocation = <<>>
  /\ (Returned /\ Has(params, S("keystorelocation"))
        /\ (params[S("keystorelocation")] = <<>> \/ params[S("keystorelocation")] \notin env.files))
       => err # NoErr

\* a location that exists has been resolved
KeyStoreLocationResolved ==
  /\ Resolved
  /\ dsn = S("keystorelocation=/ks")
  /\ p.keyStoreLocation = S("/ks")
  /\ stats = 1

\* a location that does not exist has been refused
MissingKeyStoreRefused ==
  /\ Failed
  /\ dsn = S("keystorelocation=/ks")
  /\ env = Env1
  /\ err = "unable to find keystore"
  /\ p.keyStoreLocation = <<>>

(***************************************************************************)
(* C17  the characters the ODBC tokenizer refuses                          *)
(***************************************************************************)
\* the loop of the ODBC tokenizer is about to read the character at i
Scanning == pc = "odbc" /\ i <= Len(OdbcBody)

\* the character c is none that may follow a closed braced value
NeitherSpaceNorSemicolon(c) == c # ";" /\ ~IsSpace(c)

\* the situations in which reading c in state is an error
Refused(state, c) ==
  \/ state = parserStateBeforeKey /\ c = "="
  \/ state = parserStateBracedValueClosingBrace /\ c # "}" /\ NeitherSpaceNorSemicolon(c)
  \/ state = parserStateEndValue /\ NeitherSpaceNorSemicolon(c)

\* C17: a step of the scan fails exactly when it reads "=" in BeforeKey, or
\* a character other than whitespace and ";" after a braced value has been
\* closed; and EndValue is entered from BracedValueClosingBrace only.
ScanRefusesExactlyMisplacedCharacters ==
  [][Scanning
       => /\ sc'.err # NoErr <=> Refused(sc.state, OdbcBody[i])
          /\ (sc'.state = parserStateEndValue /\ sc.state # parserStateEndValue)
               => sc.state = parserStateBracedValueClosingBrace]_vars

\* a character after a closed braced value and a space has been refused
CharacterAfterBracedValueRefused ==
  /\ Failed
  /\ OdbcBody = S("k={} a}")
  /\ i = 6
  /\ sc.state = parserStateEndValue
  /\ err = "odbc: unexpected character, expected semi-colon or whitespace"

\* "=" where a key has to start has been refused
EqualsBeforeKeyRefused ==
  /\ Failed
  /\ OdbcBody = S("a;=")
  /\ i = 3
  /\ err = "odbc: unexpected character, expected start of key"

(***************************************************************************)
(* C18  one tokenizer, at most one access to the file system               *)
(***************************************************************************)
\* key is present with a text that ParseUint refuses in this base and width
InvalidUint(key, base, bitSize) ==
  Has(params, S(key)) /\ ParseUint(params[S(key)], base, bitSize).err # NoErr

\* key is present with a text that is neither word nor a boolean
InvalidBoolOr(key, word) ==
  /\ Has(params, S(key))
  /\ ToLower(params[S(key)]) # S(word)
  /\ params[S(key)] \notin TrueTexts \cup FalseTexts

\* one of the parameters validated before "keystorelocation" is invalid
EarlierParameterInvalid ==
  \/ InvalidUint("log", 10, 64)
  \/ InvalidUint("port", 10, 16)
  \/ InvalidUint("packet size", 0, 16)
  \/ InvalidUint("connection timeout", 10, 64)
  \/ InvalidUint("dial timeout", 10, 64)
  \/ InvalidUint("keepalive", 10, 64)
  \/ InvalidBoolOr("encrypt", "disable")
  \/ InvalidBoolOr("columnencryption", "true")
  \/ Has(params, S("keystoreauthentication"))
       /\ ToLower(params[S("keystoreauthentication")]) # S("pfx")

\* "keystorelocation" is present and not empty
KeyStoreLocationGiven ==
  Has(params, S("keystorelocation")) /\ params[S("keystorelocation")] # <<>>

\* C18: a call that has returned has run one tokenizer and checked the
\* existence of at most one file, and of one exactly when its tokenizer
\* returned a map, no parameter validated before "keystorelocation" is
\* invalid, and "keystorelocation" is present and not empty.
OneTokenizerAtMostOneStat ==
  Returned
    => /\ Len(ran) = 1
       /\ stats \in {0, 1}
       /\ stats = 1 <=> (~TokenizerFailed /\ ~EarlierParameterInvalid /\ KeyStoreLocationGiven)

\* an invalid "log" has kept the call from looking for the key store
NoStatAfterInvalidLog ==
  /\ Failed
  /\ dsn = S("log=x;keystorelocation=/ks")
  /\ err = "invalid log parameter"
  /\ stats = 0

(***************************************************************************)
(* C19  timeouts in seconds                                                *)
(***************************************************************************)
\* the int64 with bits d is not negative and is n seconds exactly: d is a
\* multiple of 1000 * 1000 * 1000 nanoseconds and the quotient is n
ExactlySeconds(d, n) ==
  LET micro == U64DivMod(d, 1000)
      milli == U64DivMod(micro.quo, 1000)
      sec   == U64DivMod(milli.quo, 1000)
  IN /\ d[4] < Limb \div 2
     /\ micro.rem = 0 /\ milli.rem = 0 /\ sec.rem = 0
     /\ sec.quo = n

\* the value ParseUint accepts for key
AcceptedSeconds(key) == ParseUint(params[S(key)], 10, 64).val

\* C19 as stated: after a successful resolution each of the three durations
\* whose key is present is exactly the accepted number of seconds, and is
\* not negative.
TimeoutsAreExactSeconds ==
  Resolved
    => /\ Has(params, S("connection timeout"))
            => ExactlySeconds(p.conn_timeout, AcceptedSeconds("connection timeout"))
       /\ Has(params, S("dial timeout"))
            => ExactlySeconds(p.dial_timeout, AcceptedSeconds("dial timeout"))
       /\ Has(params, S("keepalive"))
            => ExactlySeconds(p.keepAlive, AcceptedSeconds("keepalive"))

(***************************************************************************)
(* C20  the buffers of the ODBC tokenizer                                  *)
(***************************************************************************)
\* the text of the pair that the n-th write commits: the characters after
\* the one at which the write before it was made, up to the one at which
\* this write is made (the end of the input for the switch after the loop)
PairText(n) ==
  LET from == IF n = 1 THEN 1 ELSE sc.writes[n - 1].at + 2
  IN SubSeq(OdbcBody, from, sc.writes[n].at)

\* key is the normalized form of a piece of text
KeyWithin(key, text) ==
  \E a, b \in 1..Len(text) : a <= b /\ key = normalizeOdbcKey(SubSeq(text, a, b))

\* the n-th committed key and value are made of characters of their own pair
CommittedFromOwnPair(n) ==
  LET w == sc.writes[n] IN
  /\ KeyWithin(w.key, PairText(n))
  /\ Range(w.value) \subseteq Range(PairText(n))
  /\ Len(w.key) + Len(w.value) <= Len(PairText(n))

\* a key as the tokenizer may commit it
WellFormedKey(key) ==
  /\ key # <<>>
  /\ key = ToLower(key)
  /\ ~IsSpace(key[1]) /\ ~IsSpace(key[Len(key)])

\* C20: after any prefix of any input the key and the value buffer are empty
\* in BeforeKey and EndValue and the value buffer is empty in Key and
\* BeginValue; every committed pair is made of characters of its own text,
\* and every committed key is non-empty, lower-cased and without leading or
\* trailing whitespace.
OdbcBuffersBelongToOnePair ==
  /\ sc.state \in {parserStateBeforeKey, parserStateEndValue}
       => sc.key = <<>> /\ sc.value = <<>>
  /\ sc.state \in {parserStateKey, parserStateBeginValue} => sc.value = <<>>
  /\ \A n \in 1..Len(sc.writes) :
       CommittedFromOwnPair(n) /\ WellFormedKey(sc.writes[n].key)

\* two pairs have been committed: the first with a bare value followed by
\* whitespace, the second with a key that differs from the start of its text
SecondPairCommittedAlone ==
  /\ Tokenized("splitConnectionStringOdbc")
  /\ Len(sc.writes) = 2
  /\ sc.writes[1].value # <<>>
  /\ IsSpace(PairText(1)[Len(PairText(1))])
  /\ sc.writes[2].key # sc.writes[1].key
  /\ sc.writes[2].key # SubSeq(PairText(2), 1, Len(sc.writes[2].key))

====
